---- MODULE Spec2Model ----
(***************************************************************************)
(* Model of the EduPassToken credit ledger                                 *)
(* (contracts/edupass-token/src/lib.rs).                                   *)
(*                                                                         *)
(* The contract's storage is three maps: the instance storage (keys Admin  *)
(* and TotalIssued), and the persistent Credits and Allocations maps keyed *)
(* by address.  Every public function is one action: the host runs a call  *)
(* as one all-or-nothing unit, so a panic discards every write the call    *)
(* made.  i128 arithmetic is modelled on a scaled-down signed range        *)
(* -(I128Max+1) .. I128Max; what `+` does on overflow depends on the build *)
(* (panic with overflow checks, two's-complement wrap without), so the     *)
(* build is chosen nondeterministically in Init.                           *)
(***************************************************************************)
EXTENDS Integers, FiniteSets, Sequences, TLC

\* ------------------------------------------------------------------ bounds
\* scaled-down i128::MAX
I128Max == 3
\* number of contract invocations explored
MaxCalls == 2

\* ------------------------------------------------------------------ inputs
Address == {"A", "B", "C"}
NoAddress == "none"
Amounts == {-1, 0, 1, I128Max}
\* the (purpose, expires_at) pairs a caller passes
Metas == {<<"Tuition", 1735689600>>, <<"Books", 0>>}
\* the sets of addresses whose authorization an invocation can carry
AuthSets == {{}} \cup {{a} : a \in Address}

\* the builds of the contract: with overflow checks (debug, or
\* overflow-checks = true), where `+` panics on overflow, and without (the
\* release default), where it wraps
Builds == BOOLEAN

VARIABLES
    instance,        \* env.storage().instance(): keys "Admin", "TotalIssued"
    credits,         \* env.storage().persistent(), DataKey::Credits(addr)
    allocations,     \* env.storage().persistent(), DataKey::Allocations(addr)
    overflowChecks,  \* whether the build panics on arithmetic overflow
    last,            \* the last invocation: function, arguments, outcome
    issuedSum,       \* sum of the amounts of the successful issue_credits calls
    lastIssued,      \* per beneficiary, the arguments of the last successful issue_credits
    calls            \* number of invocations made

vars == <<instance, credits, allocations, overflowChecks, last, issuedSum, lastIssued, calls>>

\* ------------------------------------------------------------- i128, maps
I128Min == -(I128Max + 1)
I128Modulus == 2 * (I128Max + 1)

\* does the mathematical result leave the i128 range
Overflows(x) == x > I128Max \/ x < I128Min

\* two's-complement wrap of a mathematical result into the i128 range
Wrap(x) == ((x - I128Min) % I128Modulus) + I128Min

EmptyMap == [k \in {} |-> 0]

\* storage.has(key)
Has(map, k) == k \in DOMAIN map

\* storage.get(key).unwrap_or(default)
GetOr(map, k, default) == IF k \in DOMAIN map THEN map[k] ELSE default

\* storage.set(key, value)
Set(map, k, v) == [x \in DOMAIN map \cup {k} |-> IF x = k THEN v ELSE map[x]]

\* the whole store of the contract as one value
Env == [instance |-> instance, credits |-> credits, allocations |-> allocations]

\* a call that panics: the host discards the writes, the store is the one
\* the call started from
Panic(env0, err) == [result |-> err, env |-> env0, ret |-> <<>>]

\* a call that returns normally: its writes are committed
Return(env1, value) == [result |-> "Ok", env |-> env1, ret |-> value]


\* ---------------------------------------------------------- the contract
\* initialize without the Admin guard: a second call overwrites Admin
initialize_NoGuard(env, admin) ==
    LET env1 == [env EXCEPT !.instance = Set(@, "Admin", admin)]
        env2 == [env1 EXCEPT !.instance = Set(@, "TotalIssued", 0)]
    IN  Return(env2, <<>>)

\* pub fn initialize(env, admin)
initialize(env, admin) ==
    IF Has(env.instance, "Admin")
    THEN Panic(env, "AlreadyInitialized")
    ELSE LET env1 == [env EXCEPT !.instance = Set(@, "Admin", admin)]
             env2 == [env1 EXCEPT !.instance = Set(@, "TotalIssued", 0)]
         IN  Return(env2, <<>>)

\* issue_credits that stores amount as the new balance instead of adding it
issue_credits_OverwritesBalance(env, auth, issuer, beneficiary, amount, purpose, expires_at) ==
    IF issuer \notin auth THEN Panic(env, "Unauthorized")
    ELSE IF amount <= 0 THEN Panic(env, "InvalidAmount")
    ELSE
    LET env1 == [env EXCEPT !.credits = Set(@, beneficiary, amount)]
        total == GetOr(env1.instance, "TotalIssued", 0)
        env2 == [env1 EXCEPT !.instance = Set(@, "TotalIssued", Wrap(total + amount))]
        allocation == [beneficiary |-> beneficiary,
                       issuer |-> issuer,
                       amount |-> amount,
                       purpose |-> purpose,
                       expires_at |-> expires_at]
        env3 == [env2 EXCEPT !.allocations = Set(@, beneficiary, allocation)]
    IN  IF overflowChecks /\ Overflows(total + amount) THEN Panic(env, "Overflow")
        ELSE Return(env3, <<allocation>>)

\* issue_credits that makes its issuer the Admin of a contract that has none
issue_credits_SetsAdmin(env, auth, issuer, beneficiary, amount, purpose, expires_at) ==
    IF issuer \notin auth THEN Panic(env, "Unauthorized")
    ELSE IF amount <= 0 THEN Panic(env, "InvalidAmount")
    ELSE
    LET current == GetOr(env.credits, beneficiary, 0)
        env0 == IF Has(env.instance, "Admin") THEN env
                ELSE [env EXCEPT !.instance = Set(@, "Admin", issuer)]
        env1 == [env0 EXCEPT !.credits = Set(@, beneficiary, Wrap(current + amount))]
        total == GetOr(env1.instance, "TotalIssued", 0)
        env2 == [env1 EXCEPT !.instance = Set(@, "TotalIssued", Wrap(total + amount))]
        allocation == [beneficiary |-> beneficiary,
                       issuer |-> issuer,
                       amount |-> amount,
                       purpose |-> purpose,
                       expires_at |-> expires_at]
        env3 == [env2 EXCEPT !.allocations = Set(@, beneficiary, allocation)]
    IN  IF overflowChecks /\ Overflows(current + amount) THEN Panic(env, "Overflow")
        ELSE IF overflowChecks /\ Overflows(total + amount) THEN Panic(env, "Overflow")
        ELSE Return(env3, <<allocation>>)

\* issue_credits whose stored record accumulates the amounts issued so far
issue_credits_AccumulatesAllocation(env, auth, issuer, beneficiary, amount, purpose, expires_at) ==
    IF issuer \notin auth THEN Panic(env, "Unauthorized")
    ELSE IF amount <= 0 THEN Panic(env, "InvalidAmount")
    ELSE
    LET current == GetOr(env.credits, beneficiary, 0)
        env1 == [env EXCEPT !.credits = Set(@, beneficiary, Wrap(current + amount))]
        total == GetOr(env1.instance, "TotalIssued", 0)
        env2 == [env1 EXCEPT !.instance = Set(@, "TotalIssued", Wrap(total + amount))]
        allocation == [beneficiary |-> beneficiary,
                       issuer |-> issuer,
                       amount |-> Wrap(current + amount),
                       purpose |-> purpose,
                       expires_at |-> expires_at]
        env3 == [env2 EXCEPT !.allocations = Set(@, beneficiary, allocation)]
    IN  IF overflowChecks /\ Overflows(current + amount) THEN Panic(env, "Overflow")
        ELSE IF overflowChecks /\ Overflows(total + amount) THEN Panic(env, "Overflow")
        ELSE Return(env3, <<allocation>>)

\* pub fn issue_credits(env, issuer, beneficiary, amount, purpose, expires_at);
\* auth is the set of addresses that authorized the invocation
issue_credits(env, auth, issuer, beneficiary, amount, purpose, expires_at) ==
    IF issuer \notin auth THEN Panic(env, "Unauthorized")
    ELSE IF amount <= 0 THEN Panic(env, "InvalidAmount")
    ELSE
    LET current == GetOr(env.credits, beneficiary, 0)
        env1 == [env EXCEPT !.credits = Set(@, beneficiary, Wrap(current + amount))]
        total == GetOr(env1.instance, "TotalIssued", 0)
        env2 == [env1 EXCEPT !.instance = Set(@, "TotalIssued", Wrap(total + amount))]
        allocation == [beneficiary |-> beneficiary,
                       issuer |-> issuer,
                       amount |-> amount,
                       purpose |-> purpose,
                       expires_at |-> expires_at]
        env3 == [env2 EXCEPT !.allocations = Set(@, beneficiary, allocation)]
    IN  IF overflowChecks /\ Overflows(current + amount) THEN Panic(env, "Overflow")
        ELSE IF overflowChecks /\ Overflows(total + amount) THEN Panic(env, "Overflow")
        ELSE Return(env3, <<allocation>>)

\* transfer that also records an Allocation for the recipient
transfer_RecordsAllocation(env, auth, from, to, amount) ==
    IF from \notin auth THEN Panic(env, "Unauthorized")
    ELSE IF amount <= 0 THEN Panic(env, "InvalidAmount")
    ELSE
    LET from_balance == GetOr(env.credits, from, 0)
        to_balance == GetOr(env.credits, to, 0)
        env1 == [env EXCEPT !.credits = Set(@, from, from_balance - amount)]
        env2 == [env1 EXCEPT !.credits = Set(@, to, Wrap(to_balance + amount))]
        allocation == [beneficiary |-> to,
                       issuer |-> from,
                       amount |-> amount,
                       purpose |-> "Transfer",
                       expires_at |-> 0]
        env3 == [env2 EXCEPT !.allocations = Set(@, to, allocation)]
    IN  IF from_balance < amount THEN Panic(env, "InsufficientBalance")
        ELSE IF overflowChecks /\ Overflows(to_balance + amount) THEN Panic(env, "Overflow")
        ELSE Return(env3, <<>>)

\* transfer that refuses to run on a contract that has no Admin
transfer_RequiresInitialized(env, auth, from, to, amount) ==
    IF from \notin auth THEN Panic(env, "Unauthorized")
    ELSE IF ~Has(env.instance, "Admin") THEN Panic(env, "NotInitialized")
    ELSE IF amount <= 0 THEN Panic(env, "InvalidAmount")
    ELSE
    LET from_balance == GetOr(env.credits, from, 0)
        to_balance == GetOr(env.credits, to, 0)
        env1 == [env EXCEPT !.credits = Set(@, from, from_balance - amount)]
        env2 == [env1 EXCEPT !.credits = Set(@, to, Wrap(to_balance + amount))]
    IN  IF from_balance < amount THEN Panic(env, "InsufficientBalance")
        ELSE IF overflowChecks /\ Overflows(to_balance + amount) THEN Panic(env, "Overflow")
        ELSE Return(env2, <<>>)

\* transfer that asks the recipient's authorization instead of the sender's
transfer_AuthOfRecipient(env, auth, from, to, amount) ==
    IF to \notin auth THEN Panic(env, "Unauthorized")
    ELSE IF amount <= 0 THEN Panic(env, "InvalidAmount")
    ELSE
    LET from_balance == GetOr(env.credits, from, 0)
        to_balance == GetOr(env.credits, to, 0)
        env1 == [env EXCEPT !.credits = Set(@, from, from_balance - amount)]
        env2 == [env1 EXCEPT !.credits = Set(@, to, Wrap(to_balance + amount))]
    IN  IF from_balance < amount THEN Panic(env, "InsufficientBalance")
        ELSE IF overflowChecks /\ Overflows(to_balance + amount) THEN Panic(env, "Overflow")
        ELSE Return(env2, <<>>)

\* pub fn transfer(env, from, to, amount)
transfer(env, auth, from, to, amount) ==
    IF from \notin auth THEN Panic(env, "Unauthorized")
    ELSE IF amount <= 0 THEN Panic(env, "InvalidAmount")
    ELSE
    LET from_balance == GetOr(env.credits, from, 0)
        to_balance == GetOr(env.credits, to, 0)
        env1 == [env EXCEPT !.credits = Set(@, from, from_balance - amount)]
        env2 == [env1 EXCEPT !.credits = Set(@, to, Wrap(to_balance + amount))]
    IN  IF from_balance < amount THEN Panic(env, "InsufficientBalance")
        ELSE IF overflowChecks /\ Overflows(to_balance + amount) THEN Panic(env, "Overflow")
        ELSE Return(env2, <<>>)

\* burn that writes the new balance first and reports an insufficient balance
\* as an error value, without a panic: the write is committed
burn_WriteBeforeCheck(env, auth, account, amount) ==
    IF account \notin auth THEN Panic(env, "Unauthorized")
    ELSE IF amount <= 0 THEN Panic(env, "InvalidAmount")
    ELSE
    LET balance_ == GetOr(env.credits, account, 0)
        env1 == [env EXCEPT !.credits = Set(@, account, balance_ - amount)]
    IN  IF balance_ < amount
        THEN [result |-> "InsufficientBalance", env |-> env1, ret |-> <<>>]
        ELSE Return(env1, <<>>)

\* burn that checks the amount before the authorization
burn_AmountCheckFirst(env, auth, account, amount) ==
    IF amount <= 0 THEN Panic(env, "InvalidAmount")
    ELSE IF account \notin auth THEN Panic(env, "Unauthorized")
    ELSE
    LET balance_ == GetOr(env.credits, account, 0)
        env1 == [env EXCEPT !.credits = Set(@, account, balance_ - amount)]
    IN  IF balance_ < amount THEN Panic(env, "InsufficientBalance")
        ELSE Return(env1, <<>>)

\* burn that also takes the burned amount off TotalIssued
burn_DecrementsTotal(env, auth, account, amount) ==
    IF account \notin auth THEN Panic(env, "Unauthorized")
    ELSE IF amount <= 0 THEN Panic(env, "InvalidAmount")
    ELSE
    LET balance_ == GetOr(env.credits, account, 0)
        env1 == [env EXCEPT !.credits = Set(@, account, balance_ - amount)]
        total == GetOr(env1.instance, "TotalIssued", 0)
        env2 == [env1 EXCEPT !.instance = Set(@, "TotalIssued", Wrap(total - amount))]
    IN  IF balance_ < amount THEN Panic(env, "InsufficientBalance")
        ELSE Return(env2, <<>>)

\* pub fn burn(env, account, amount)
burn(env, auth, account, amount) ==
    IF account \notin auth THEN Panic(env, "Unauthorized")
    ELSE IF amount <= 0 THEN Panic(env, "InvalidAmount")
    ELSE
    LET balance_ == GetOr(env.credits, account, 0)
        env1 == [env EXCEPT !.credits = Set(@, account, balance_ - amount)]
    IN  IF balance_ < amount THEN Panic(env, "InsufficientBalance")
        ELSE Return(env1, <<>>)

\* balance that reports a missing entry as -1 instead of 0
balance_MissingIsMinusOne(env, account) == GetOr(env.credits, account, -1)

\* pub fn balance(env, account)
balance(env, account) == GetOr(env.credits, account, 0)

\* pub fn get_allocation(env, beneficiary): <<>> is None, <<a>> is Some(a)
get_allocation(env, beneficiary) ==
    IF Has(env.allocations, beneficiary) THEN <<env.allocations[beneficiary]>> ELSE <<>>

\* pub fn total_issued(env)
total_issued(env) == GetOr(env.instance, "TotalIssued", 0)

\* ------------------------------------------------------------ the machine
NoCall == [op |-> "deploy", auth |-> {}, src |-> NoAddress, dst |-> NoAddress,
           amount |-> 0, meta |-> <<>>, result |-> "Ok", ret |-> <<>>]

\* the state after the contract is deployed: every storage is empty
Init ==
    /\ instance = EmptyMap
    /\ credits = EmptyMap
    /\ allocations = EmptyMap
    /\ overflowChecks \in Builds
    /\ last = NoCall
    /\ issuedSum = 0
    /\ lastIssued = EmptyMap
    /\ calls = 0

\* one invocation with outcome r: the host commits r.env
Invoke(op, auth, src, dst, amount, meta, r) ==
    /\ calls < MaxCalls
    /\ calls' = calls + 1
    /\ instance' = r.env.instance
    /\ credits' = r.env.credits
    /\ allocations' = r.env.allocations
    /\ last' = [op |-> op, auth |-> auth, src |-> src, dst |-> dst, amount |-> amount,
                meta |-> meta, result |-> r.result, ret |-> r.ret]
    /\ issuedSum' = IF op = "issue_credits" /\ r.result = "Ok"
                    THEN issuedSum + amount ELSE issuedSum
    /\ lastIssued' = IF op = "issue_credits" /\ r.result = "Ok"
                     THEN Set(lastIssued, dst, [issuer |-> src, amount |-> amount,
                                                purpose |-> meta[1], expires_at |-> meta[2]])
                     ELSE lastIssued
    /\ UNCHANGED overflowChecks

Initialize ==
    \E admin \in Address :
        Invoke("initialize", {}, admin, NoAddress, 0, <<>>, initialize(Env, admin))

IssueCredits ==
    \E auth \in AuthSets, issuer \in Address, beneficiary \in Address,
       amount \in Amounts, m \in Metas :
        Invoke("issue_credits", auth, issuer, beneficiary, amount, m,
               issue_credits(Env, auth, issuer, beneficiary, amount, m[1], m[2]))

Transfer ==
    \E auth \in AuthSets, from \in Address, to \in Address, amount \in Amounts :
        Invoke("transfer", auth, from, to, amount, <<>>,
               transfer(Env, auth, from, to, amount))

Burn ==
    \E auth \in AuthSets, account \in Address, amount \in Amounts :
        Invoke("burn", auth, account, NoAddress, amount, <<>>,
               burn(Env, auth, account, amount))

Balance ==
    \E account \in Address :
        Invoke("balance", {}, account, NoAddress, 0, <<>>,
               Return(Env, <<balance(Env, account)>>))

GetAllocation ==
    \E beneficiary \in Address :
        Invoke("get_allocation", {}, beneficiary, NoAddress, 0, <<>>,
               Return(Env, get_allocation(Env, beneficiary)))

TotalIssued ==
    Invoke("total_issued", {}, NoAddress, NoAddress, 0, <<>>,
           Return(Env, <<total_issued(Env)>>))

Next ==
    \/ Initialize
    \/ IssueCredits
    \/ Transfer
    \/ Burn
    \/ Balance
    \/ GetAllocation
    \/ TotalIssued

Spec == Init /\ [][Next]_vars

\* -------------------------------------------------- observations of a state
\* the store after the step, for action formulas
EnvNext == [instance |-> instance', credits |-> credits', allocations |-> allocations']

RECURSIVE SumOver(_, _)
SumOver(map, keys) ==
    IF keys = {} THEN 0
    ELSE LET k == CHOOSE x \in keys : TRUE
         IN  map[k] + SumOver(map, keys \ {k})

\* the sum of all account balances of a store
SumBalances(env) == SumOver(env.credits, DOMAIN env.credits)

\* the step is an invocation of one of the functions in ops
Called(ops) == calls' = calls + 1 /\ last'.op \in ops

\* ------------------------------------------------------------------ claims

\* C1: a transfer call, successful or failing, for any from, to and amount
\* (from == to included), leaves the sum of all account balances unchanged; so
\* does every sequence of transfer calls.  Stated for the build that panics
\* on overflow, so that no wrapped addition is involved.
C1_TransferConservesSum ==
    [][(overflowChecks /\ Called({"transfer"}))
        => SumBalances(EnvNext) = SumBalances(Env)]_vars

\* C2: a successful transfer with from == to, amount > 0 and
\* amount <= balance(from) leaves balance(from) as it was; an authorized
\* self-transfer with amount > 0 and amount > balance(from) fails with
\* InsufficientBalance.
C2_SelfTransferNoOp ==
    [][(Called({"transfer"}) /\ last'.src = last'.dst /\ last'.src \in last'.auth
        /\ last'.amount > 0)
        => IF last'.amount <= balance(Env, last'.src)
           THEN last'.result = "Ok"
                   => balance(EnvNext, last'.src) = balance(Env, last'.src)
           ELSE last'.result = "InsufficientBalance"]_vars

\* C3: in every reachable state every account's balance is >= 0.
C3_NonNegativeBalances ==
    \A a \in Address : balance(Env, a) >= 0

\* C4: total_issued() equals the sum of the amounts of the successful
\* issue_credits calls made so far, whatever the order of the calls.  Stated
\* for the build that panics on overflow.
C4_TotalIssuedIsIssuedSum ==
    overflowChecks => total_issued(Env) = issuedSum

\* C5: no call, successful or failing, decreases total_issued().  Stated for
\* the build that panics on overflow.
C5_TotalIssuedMonotonic ==
    [][overflowChecks => total_issued(EnvNext) >= total_issued(Env)]_vars

\* C6: an issue_credits, transfer or burn call that fails with InvalidAmount
\* (which happens only for amount <= 0) or with InsufficientBalance (only
\* transfer and burn, only for balance < amount) leaves every balance, every
\* allocation, Admin and TotalIssued as they were.
C6_FailureLeavesStoreUnchanged ==
    [][(Called({"issue_credits", "transfer", "burn"})
        /\ last'.result \in {"InvalidAmount", "InsufficientBalance"})
        => /\ UNCHANGED <<instance, credits, allocations>>
           /\ last'.result = "InvalidAmount" => last'.amount <= 0
           /\ last'.result = "InsufficientBalance"
                 => /\ last'.op \in {"transfer", "burn"}
                    /\ balance(Env, last'.src) < last'.amount]_vars

\* a transfer of more than the sender's positive balance has just failed
C6_Witness ==
    /\ last.op = "transfer"
    /\ last.result = "InsufficientBalance"
    /\ balance(Env, last.src) > 0
    /\ last.amount > balance(Env, last.src)

\* C7: once Admin is set, every initialize call, with the same or another
\* admin, after any other calls, fails with AlreadyInitialized and leaves
\* Admin, TotalIssued, the balances and the allocations unchanged.
C7_InitializeOnce ==
    /\ [][(Called({"initialize"}) /\ Has(instance, "Admin"))
           => /\ last'.result = "AlreadyInitialized"
              /\ UNCHANGED <<instance, credits, allocations>>]_vars
    /\ [](Has(instance, "Admin")
           => \A admin \in Address :
                 initialize(Env, admin) = Panic(Env, "AlreadyInitialized"))

\* a second initialize, naming another admin, has just failed
C7_Witness ==
    /\ last.op = "initialize"
    /\ last.result = "AlreadyInitialized"
    /\ Has(instance, "Admin")
    /\ instance["Admin"] # last.src

\* C8: issue_credits without the issuer's authorization, transfer without
\* from's and burn without account's fail with Unauthorized, whatever the
\* other arguments and whoever else authorized the call, and leave the store
\* unchanged.
C8_UnauthorizedFails ==
    [][(Called({"issue_credits", "transfer", "burn"}) /\ last'.src \notin last'.auth)
        => /\ last'.result = "Unauthorized"
           /\ UNCHANGED <<instance, credits, allocations>>]_vars

\* a transfer the sender could afford, authorized by the recipient alone, has
\* just failed
C8_Witness ==
    /\ last.op = "transfer"
    /\ last.result = "Unauthorized"
    /\ last.auth = {last.dst}
    /\ last.src # last.dst
    /\ last.amount > 0
    /\ balance(Env, last.src) >= last.amount

\* C9: an authorized issue_credits with amount > 0 whose balance + amount or
\* TotalIssued + amount exceeds the i128 maximum, and an authorized transfer
\* the sender can afford whose to_balance + amount exceeds it, fail as a whole
\* and change nothing.
C9_OverflowAborts ==
    [][/\ (/\ Called({"issue_credits"})
           /\ last'.src \in last'.auth
           /\ last'.amount > 0
           /\ \/ Overflows(balance(Env, last'.dst) + last'.amount)
              \/ Overflows(total_issued(Env) + last'.amount))
          => (last'.result # "Ok" /\ UNCHANGED <<instance, credits, allocations>>)
       /\ (/\ Called({"transfer"})
           /\ last'.src \in last'.auth
           /\ last'.amount > 0
           /\ balance(Env, last'.src) >= last'.amount
           /\ Overflows(balance(Env, last'.dst) + last'.amount))
          => (last'.result # "Ok" /\ UNCHANGED <<instance, credits, allocations>>)]_vars

\* C10: in every reachable state, a transfer authorized by from, with
\* from # to, succeeds exactly when amount > 0 and balance(from) >= amount,
\* and then takes exactly amount from balance(from), adds exactly amount to
\* balance(to) and leaves total_issued() unchanged.
C10_TransferEffect ==
    \A from \in Address, to \in Address, amount \in Amounts :
        from # to =>
            LET r == transfer(Env, {from}, from, to, amount)
            IN  /\ (r.result = "Ok") <=> (amount > 0 /\ balance(Env, from) >= amount)
                /\ r.result = "Ok"
                      => /\ balance(r.env, from) = balance(Env, from) - amount
                         /\ balance(r.env, to) = balance(Env, to) + amount
                         /\ total_issued(r.env) = total_issued(Env)

\* C11: in every reachable state, a burn authorized by account succeeds
\* exactly when amount > 0 and balance(account) >= amount, and then takes
\* exactly amount from balance(account) and leaves total_issued() unchanged;
\* with amount > 0 and balance(account) < amount it fails with
\* InsufficientBalance and the store is unchanged.
C11_BurnEffect ==
    \A account \in Address, amount \in Amounts :
        LET r == burn(Env, {account}, account, amount)
        IN  /\ (r.result = "Ok") <=> (amount > 0 /\ balance(Env, account) >= amount)
            /\ r.result = "Ok"
                  => /\ balance(r.env, account) = balance(Env, account) - amount
                     /\ total_issued(r.env) = total_issued(Env)
            /\ (amount > 0 /\ balance(Env, account) < amount)
                  => /\ r.result = "InsufficientBalance"
                     /\ r.env = Env

\* a burn has just succeeded and the burned credits still count as issued
C11_Witness ==
    /\ last.op = "burn"
    /\ last.result = "Ok"
    /\ last.amount > 0
    /\ total_issued(Env) = issuedSum
    /\ SumBalances(Env) = issuedSum - last.amount

\* an issue_credits call authorized by the issuer, with amount > 0, is made
C12_Issued ==
    Called({"issue_credits"}) /\ last'.src \in last'.auth /\ last'.amount > 0

\* the call succeeds, adds exactly amount to balance(beneficiary) and to
\* total_issued(), and returns the Allocation built from its arguments, which
\* is the record then stored for the beneficiary
C12_Effect ==
    LET allocation == [beneficiary |-> last'.dst,
                       issuer |-> last'.src,
                       amount |-> last'.amount,
                       purpose |-> last'.meta[1],
                       expires_at |-> last'.meta[2]]
    IN  /\ last'.result = "Ok"
        /\ balance(EnvNext, last'.dst) = balance(Env, last'.dst) + last'.amount
        /\ total_issued(EnvNext) = total_issued(Env) + last'.amount
        /\ last'.ret = <<allocation>>
        /\ get_allocation(EnvNext, last'.dst) = <<allocation>>

\* C12 as stated: every authorized issue_credits with amount > 0 has the
\* issuance effect.  Stated for the build that panics on overflow.
C12_IssueEffect ==
    [][(overflowChecks /\ C12_Issued) => C12_Effect]_vars

\* C12 as amended: an authorized issue_credits with amount > 0 for which
\* neither balance(beneficiary) + amount nor TotalIssued + amount exceeds the
\* i128 maximum has the issuance effect, in either build.
C12_IssueEffectNoOverflow ==
    [][(/\ C12_Issued
        /\ ~Overflows(balance(Env, last'.dst) + last'.amount)
        /\ ~Overflows(total_issued(Env) + last'.amount))
        => C12_Effect]_vars

\* an issuance to a beneficiary who already held credits has just succeeded
C12_Witness ==
    /\ last.op = "issue_credits"
    /\ last.result = "Ok"
    /\ balance(Env, last.dst) > last.amount
    /\ total_issued(Env) > last.amount

\* C13: in every reachable state, get_allocation(b) is absent exactly when no
\* issue_credits to b has succeeded, and otherwise is the record (b, issuer,
\* amount, purpose, expires_at) of the most recent successful issue_credits
\* to b: the amount of that one call, not of the issuances accumulated.
C13_LastAllocationSnapshot ==
    \A b \in Address :
        get_allocation(Env, b) =
            IF Has(lastIssued, b)
            THEN <<[beneficiary |-> b,
                    issuer |-> lastIssued[b].issuer,
                    amount |-> lastIssued[b].amount,
                    purpose |-> lastIssued[b].purpose,
                    expires_at |-> lastIssued[b].expires_at]>>
            ELSE <<>>

\* a second issuance to the same beneficiary has just succeeded: the balance
\* holds both amounts, the record the second amount alone, and a beneficiary
\* never issued to has no record
C13_Witness ==
    /\ last.op = "issue_credits"
    /\ last.result = "Ok"
    /\ calls = 2
    /\ issuedSum > last.amount
    /\ balance(Env, last.dst) = issuedSum
    /\ get_allocation(Env, last.dst)[1].amount = last.amount
    /\ get_allocation(Env, last.dst)[1].issuer = last.src
    /\ \E b \in Address \ {last.dst} : get_allocation(Env, b) = <<>>

\* C14: a step that takes the contract from no Admin to an Admin is a
\* successful initialize, and the Admin it sets is that call's argument; once
\* Admin is set, no call removes it or changes its value.
C14_InitializationOneWay ==
    [][/\ (~Has(instance, "Admin") /\ Has(instance', "Admin"))
             => /\ last'.op = "initialize"
                /\ last'.result = "Ok"
                /\ instance'["Admin"] = last'.src
       /\ Has(instance, "Admin")
             => /\ Has(instance', "Admin")
                /\ instance'["Admin"] = instance["Admin"]]_vars

\* the contract was initialized and a later call has changed the store;
\* Admin is still there
C14_Witness ==
    /\ Has(instance, "Admin")
    /\ calls = 2
    /\ last.op \in {"issue_credits", "transfer", "burn"}
    /\ last.result = "Ok"

\* the outcome of the invocation c (a value of last) made on the store env
Run(c, env) ==
    CASE c.op = "initialize" -> initialize(env, c.src)
      [] c.op = "issue_credits" ->
            issue_credits(env, c.auth, c.src, c.dst, c.amount, c.meta[1], c.meta[2])
      [] c.op = "transfer" -> transfer(env, c.auth, c.src, c.dst, c.amount)
      [] c.op = "burn" -> burn(env, c.auth, c.src, c.amount)
      [] c.op = "balance" -> Return(env, <<balance(env, c.src)>>)
      [] c.op = "get_allocation" -> Return(env, get_allocation(env, c.src))
      [] c.op = "total_issued" -> Return(env, <<total_issued(env)>>)

\* the store env with Admin set to admin and TotalIssued stored explicitly
Initialized(env, admin) ==
    [env EXCEPT !.instance = Set(Set(@, "Admin", admin), "TotalIssued", total_issued(env))]

\* the state is the deployed one or was entered by a call that committed
\* writes.  A failing call and a query leave the store as it was, so every
\* reachable store is the store of such a state.
StoreJustWritten ==
    \/ last.op = "deploy"
    \/ last.op \in {"initialize", "issue_credits", "transfer", "burn"} /\ last.result = "Ok"

\* C15: an issue_credits, transfer, burn, balance, get_allocation or
\* total_issued call made on a contract with no Admin ends as the same call
\* would on the same store with an Admin set (and the missing TotalIssued
\* stored as what it reads as): same success or failure, same returned value,
\* same balances, allocations and total_issued() afterwards, and still no
\* Admin.  Every reachable store with every call is covered by the steps
\* taken from the states StoreJustWritten describes.
C15_PreInitializationSameAsInitialized ==
    [][(/\ Called({"issue_credits", "transfer", "burn",
                   "balance", "get_allocation", "total_issued"})
        /\ ~Has(instance, "Admin")
        /\ StoreJustWritten)
        => \A admin \in Address :
              LET r == Run(last', Initialized(Env, admin))
              IN  /\ r.result = last'.result
                  /\ r.ret = last'.ret
                  /\ r.env.credits = credits'
                  /\ r.env.allocations = allocations'
                  /\ total_issued(r.env) = total_issued(EnvNext)
                  /\ ~Has(instance', "Admin")]_vars

\* a transfer has just succeeded on a contract that was never initialized
C15_Witness ==
    /\ ~Has(instance, "Admin")
    /\ last.op = "transfer"
    /\ last.result = "Ok"
    /\ last.src # last.dst
    /\ balance(Env, last.dst) = last.amount

\* C16: a balance, get_allocation or total_issued call carries no
\* authorization, succeeds, changes no stored value, and returns the stored
\* value, or 0, absent and 0 respectively when nothing is stored under the key.
C16_QueriesArePureReads ==
    [][Called({"balance", "get_allocation", "total_issued"})
        => /\ last'.auth = {}
           /\ last'.result = "Ok"
           /\ UNCHANGED <<instance, credits, allocations>>
           /\ last'.op = "balance"
                 => last'.ret = IF last'.src \in DOMAIN credits
                                THEN <<credits[last'.src]>> ELSE <<0>>
           /\ last'.op = "get_allocation"
                 => last'.ret = IF last'.src \in DOMAIN allocations
                                THEN <<allocations[last'.src]>> ELSE <<>>
           /\ last'.op = "total_issued"
                 => last'.ret = IF "TotalIssued" \in DOMAIN instance
                                THEN <<instance["TotalIssued"]>> ELSE <<0>>]_vars

\* the balance of an account with no entry has just been read as 0, on a
\* store that holds another account's balance
C16_Witness ==
    /\ last.op = "balance"
    /\ last.src \notin DOMAIN credits
    /\ last.ret = <<0>>
    /\ DOMAIN credits # {}

\* key k is stored in both maps with the same value, or in neither
SameEntry(before, after, k) ==
    /\ k \in DOMAIN before <=> k \in DOMAIN after
    /\ k \in DOMAIN before => after[k] = before[k]

\* C17: a successful transfer changes nothing but the balances of from and
\* to; a successful burn nothing but the balance of account; a successful
\* issue_credits nothing but the beneficiary's balance, the beneficiary's
\* allocation and TotalIssued; a successful initialize nothing but Admin and
\* TotalIssued.
C17_Frame ==
    [][(Called({"initialize", "issue_credits", "transfer", "burn"}) /\ last'.result = "Ok")
        => /\ last'.op = "transfer"
                 => /\ instance' = instance
                    /\ allocations' = allocations
                    /\ \A a \in Address \ {last'.src, last'.dst} :
                          SameEntry(credits, credits', a)
           /\ last'.op = "burn"
                 => /\ instance' = instance
                    /\ allocations' = allocations
                    /\ \A a \in Address \ {last'.src} : SameEntry(credits, credits', a)
           /\ last'.op = "issue_credits"
                 => /\ SameEntry(instance, instance', "Admin")
                    /\ \A a \in Address \ {last'.dst} :
                          /\ SameEntry(credits, credits', a)
                          /\ SameEntry(allocations, allocations', a)
           /\ last'.op = "initialize"
                 => /\ credits' = credits
                    /\ allocations' = allocations]_vars

\* a transfer has just moved credits to a recipient who has no allocation,
\* from a holder whose allocation is still stored
C17_Witness ==
    /\ last.op = "transfer"
    /\ last.result = "Ok"
    /\ last.src # last.dst
    /\ Has(allocations, last.src)
    /\ ~Has(allocations, last.dst)
    /\ balance(Env, last.dst) = last.amount

\* C18: in every reachable state the sum of all account balances is at most
\* total_issued().  Stated for the build that panics on overflow.
C18_SupplyAtMostIssued ==
    overflowChecks => SumBalances(Env) <= total_issued(Env)

\* C19: issue_credits, transfer and burn report the first failed check in the
\* order authorization, amount > 0, balance >= amount: a call without the
\* required authorization fails with Unauthorized whatever its amount; an
\* authorized call with amount <= 0 fails with InvalidAmount whatever the
\* balance; an authorized transfer or burn with amount > 0 and
\* balance < amount fails with InsufficientBalance.
C19_ErrorPrecedence ==
    [][Called({"issue_credits", "transfer", "burn"})
        => /\ last'.src \notin last'.auth => last'.result = "Unauthorized"
           /\ (last'.src \in last'.auth /\ last'.amount <= 0)
                 => last'.result = "InvalidAmount"
           /\ (/\ last'.op \in {"transfer", "burn"}
               /\ last'.src \in last'.auth
               /\ last'.amount > 0
               /\ balance(Env, last'.src) < last'.amount)
                 => last'.result = "InsufficientBalance"]_vars

\* a burn with neither authorization nor a positive amount, on an account that
\* holds credits, has just failed with Unauthorized
C19_Witness ==
    /\ last.op = "burn"
    /\ last.src \notin last.auth
    /\ last.amount <= 0
    /\ balance(Env, last.src) > 0
    /\ last.result = "Unauthorized"

====
